---- MODULE Spec2Model ----
(***************************************************************************)
(* AudioGraph filter for AviSynth: the audioframe cache of audgraph.cpp    *)
(* (constructor, auto-scale prepass, GetAudioFrame, FillAudioFrame8/16,    *)
(* the GetAudioFrame calls of GetFrame), the sample-type selection of      *)
(* ConvertAudio::Create and the sample conversions of                      *)
(* ConvertAudio::GetAudio.                                                 *)
(*                                                                         *)
(* Arrays are functions over 0..n-1, as in the C++ code.  Integer          *)
(* division is C division (truncation towards zero, CDiv); >> on a signed  *)
(* int is an arithmetic shift (floor division by a power of two).          *)
(***************************************************************************)
EXTENDS Integers, Sequences, FiniteSets, TLC

(* ------------------------------------------------------------------ *)
(* Bounds of the model                                                  *)
(* ------------------------------------------------------------------ *)
\* picture and audio of the clips, constructor arguments, frames requested
MaxWidth == 4
MaxHeight == 4
MaxEitherSide == 1
MaxScale == 2
MaxChannels == 2
MaxSamplesPerFrame == 2
MaxNumFrames == 1
MaxN == 3
\* specification SpecCtor: the constructor alone, wide configurations
MaxCtorWidth == 24
MaxCtorEitherSide == 8
MaxCtorSamples == 6
MaxCtorChannels == 3
\* specification SpecPlay: GetFrame calls on wider pictures
MaxPlayWidth == 5
MaxPlayEitherSide == 1
\* specification SpecConvert: bytes up to MaxSpread away from 0, 128 and 255
MaxSpread == 1

(* ------------------------------------------------------------------ *)
(* Arithmetic of the C++ code                                           *)
(* ------------------------------------------------------------------ *)
\* INT_MIN and INT_MAX of the 32-bit int
IntMax == 2147483647
IntMin == -IntMax - 1

Abs(x) == IF x < 0 THEN -x ELSE x

\* C integer division: the quotient is truncated towards zero (b # 0).
CDiv(a, b) ==
    IF (a >= 0 /\ b > 0) \/ (a <= 0 /\ b < 0)
      THEN Abs(a) \div Abs(b)
      ELSE -(Abs(a) \div Abs(b))

\* bits 0..30 of the two's complement representation of a 32-bit int
Low31(x) == IF x >= 0 THEN x ELSE (x + IntMax) + 1

RECURSIVE BitAndNat(_, _)
BitAndNat(a, b) ==
    IF a = 0 \/ b = 0 THEN 0
    ELSE (a % 2) * (b % 2) + 2 * BitAndNat(a \div 2, b \div 2)

\* a & b on 32-bit two's complement ints
BitAnd(a, b) ==
    IF a < 0 /\ b < 0
      THEN (BitAndNat(Low31(a), Low31(b)) - IntMax) - 1
      ELSE BitAndNat(Low31(a), Low31(b))
\* a | b on 32-bit two's complement ints
BitOr(a, b) == (a - BitAnd(a, b)) + b

\* (WORD) cast of an int
ToWORD(x) == x % 65536

\* template Clamp
Clamp(x, a, b) == IF x < a THEN a ELSE IF x > b THEN b ELSE x

(* ------------------------------------------------------------------ *)
(* Sample types (bit flags of the host interface)                       *)
(* ------------------------------------------------------------------ *)
SAMPLE_INT8 == 1
SAMPLE_INT16 == 2
SAMPLE_INT24 == 4
SAMPLE_INT32 == 8
SAMPLE_FLOAT == 16

SampleTypes == {SAMPLE_INT8, SAMPLE_INT16, SAMPLE_INT24, SAMPLE_INT32, SAMPLE_FLOAT}
PixelTypes == {"YUY2", "RGB24", "RGB32", "YV12"}

\* ConvertAudio::Create followed by ConvertAudio::ConvertAudio: the sample
\* type of the clip the filter is built on.
ConvertAudio_Create(clip_type, has_audio, sample_type, prefered_type) ==
    IF (~has_audio) \/ BitAnd(clip_type, BitOr(sample_type, prefered_type)) # 0
      THEN clip_type
      ELSE prefered_type

\* VideoInfo::BytesPerChannelSample
BytesPerChannelSample(t) ==
    CASE t = SAMPLE_INT8 -> 1
      [] t = SAMPLE_INT16 -> 2
      [] t = SAMPLE_INT24 -> 3
      [] OTHER -> 4
\* VideoInfo::BytesPerAudioSample: the bytes of one sample of all channels
BytesPerAudioSample(v) == v.nchannels * BytesPerChannelSample(v.sample_type)

(* ------------------------------------------------------------------ *)
(* State                                                                *)
(* ------------------------------------------------------------------ *)
VARIABLES
    vi,                         \* VideoInfo of the clip (GenericVideoFilter::vi)
    args,                       \* constructor arguments
    pc,                         \* position in the constructor / GetFrame
    status,                     \* "constructing", "constructed", "error", "trap"
    err,                        \* message of the last ThrowError / fault
    m_audio_buffer_size,
    m_audio_buffer,
    m_cache_lookup_size,
    m_cache_lookup,
    m_audioframe_buffers_size,
    m_audioframe_buffers,
    m_sample_ranges_size,
    m_sample_ranges,
    samples_per_frame,
    num_audioframe_buffers,
    frames_either_side,
    pixels_per_audioframe,
    log_samples_per_pixel,
    log_mono_samples_per_pixel,
    graph_scale,
    autoscale,                  \* locals of GetGraphAutoScale
    getframe,                   \* locals of GetFrame
    call,                       \* history: the most recent GetAudioFrame call
    computed,                   \* history: per slot, the most recent recompute
    played,                     \* history: the GetFrame call under way or last made
    conv                        \* one ConvertAudio::GetAudio request

cfgvars == <<vi, args>>
ctlvars == <<pc, status, err>>
bufvars == <<m_audio_buffer_size, m_audio_buffer>>
cachevars == <<m_cache_lookup_size, m_cache_lookup,
               m_audioframe_buffers_size, m_audioframe_buffers>>
rangevars == <<m_sample_ranges_size, m_sample_ranges>>
layoutvars == <<samples_per_frame, num_audioframe_buffers, frames_either_side,
                pixels_per_audioframe, log_samples_per_pixel,
                log_mono_samples_per_pixel>>
histvars == <<call, computed, played>>
vars == <<vi, args, pc, status, err, m_audio_buffer_size, m_audio_buffer,
          m_cache_lookup_size, m_cache_lookup, m_audioframe_buffers_size,
          m_audioframe_buffers, m_sample_ranges_size, m_sample_ranges,
          samples_per_frame, num_audioframe_buffers, frames_either_side,
          pixels_per_audioframe, log_samples_per_pixel,
          log_mono_samples_per_pixel, graph_scale, autoscale, getframe,
          call, computed, played, conv>>

\* content of a cell that new[] allocated and nothing has written yet
UninitRaw == 99999
UninitWORD == -1
\* values an indeterminate audio cell can read as
GarbageRaw == {0, 255}
\* tag of the history variables when no frame was ever requested
NoFrame == IntMin

EmptyArray == [i \in {} |-> 0]
NoGetFrame == [n |-> 0, frame |-> 0, pixels_per_row |-> 0]
\* conv when no audio conversion is under way
NoConv == [src_format |-> 0, dst_format |-> 0, tempbuffer |-> <<>>,
           returned |-> FALSE, buf |-> <<>>,
           through_float |-> FALSE, float_buf |-> <<>>]
\* played before the first GetFrame call; the calls are recorded only when
\* played.recording is set
NoPlay == [recording |-> FALSE, n |-> 0, complete |-> FALSE, count |-> 0,
           reads |-> 0, first |-> 0, last |-> 0, consecutive |-> TRUE,
           slots |-> {}, prev_n |-> 0, prev_complete |-> FALSE]
NoCall == [valid |-> FALSE, caller |-> "", frame |-> 0, index |-> 0, hit |-> FALSE,
           reads |-> 0, failed |-> FALSE, threw |-> "", collided |-> FALSE,
           repeated |-> FALSE, ret |-> EmptyArray]

\* The state when AudioGraph::AudioGraph is entered for a clip and arguments.
InitFor(clips, arguments, conversions, recordings) ==
    /\ vi \in clips
    /\ played \in {[NoPlay EXCEPT !.recording = r] : r \in recordings}
    /\ conv \in conversions
    /\ args \in arguments
    /\ pc = "ctor_validate"
    /\ status = "constructing"
    /\ err = ""
    /\ m_audio_buffer_size = 0
    /\ m_audio_buffer = EmptyArray
    /\ m_cache_lookup_size = 0
    /\ m_cache_lookup = EmptyArray
    /\ m_audioframe_buffers_size = 0
    /\ m_audioframe_buffers = EmptyArray
    /\ m_sample_ranges_size = 0
    /\ m_sample_ranges = EmptyArray
    /\ samples_per_frame = 0
    /\ num_audioframe_buffers = 0
    /\ frames_either_side = args.frames_either_side
    /\ pixels_per_audioframe = 0
    /\ log_samples_per_pixel = 0
    /\ log_mono_samples_per_pixel = 0
    /\ graph_scale = 0
    /\ autoscale = [fi |-> 0, max_graph_y_pixel |-> 0]
    /\ getframe = NoGetFrame
    /\ call = NoCall
    /\ computed = EmptyArray

(* ------------------------------------------------------------------ *)
(* Faults                                                               *)
(* ------------------------------------------------------------------ *)
\* env->ThrowError(msg) inside the constructor: the exception leaves the
\* constructor, no filter object exists afterwards.
ThrowError(msg) ==
    /\ status' = "error"
    /\ err' = msg
    /\ pc' = pc

\* An integer division whose divisor is zero is undefined behaviour: the
\* processor's divide fault ends the call, or the program goes on with an
\* unspecified quotient.
UBQuotients == {-1, 0, 1}
DivOutcomes(a, b) ==
    IF b = 0 THEN {[trap |-> TRUE, q |-> 0]} \cup {[trap |-> FALSE, q |-> q] : q \in UBQuotients}
    ELSE {[trap |-> FALSE, q |-> CDiv(a, b)]}

DivideFault ==
    /\ status' = "trap"
    /\ err' = "integer divide by zero"
    /\ pc' = pc

(* ------------------------------------------------------------------ *)
(* AudioGraph::AudioGraph                                               *)
(* ------------------------------------------------------------------ *)
\* Base-class initialiser (ConvertAudio::Create) and the argument checks.
Ctor_Validate ==
    /\ pc = "ctor_validate" /\ status = "constructing"
    /\ vi' = [vi EXCEPT !.sample_type =
                 ConvertAudio_Create(vi.sample_type, vi.has_audio,
                                     BitOr(SAMPLE_INT16, SAMPLE_INT8), SAMPLE_INT16)]
    /\ IF vi.pixel_type = "YV12"
         THEN ThrowError("AudioGraph:  YV12 mode not supported.")
       ELSE IF ~vi.has_audio
         THEN ThrowError("AudioGraph: clip has no audio")
       ELSE IF args.frames_either_side < 0
         THEN ThrowError("AudioGraph: negative parameter not allowed")
       ELSE /\ pc' = "ctor_audio_buffer"
            /\ UNCHANGED <<status, err>>
    /\ UNCHANGED <<args, conv, bufvars, cachevars, rangevars, layoutvars, graph_scale,
                   autoscale, getframe, histvars>>

\* Allocation of the raw audio buffer.
Ctor_AudioBuffer ==
    /\ pc = "ctor_audio_buffer" /\ status = "constructing"
    /\ LET bytes_per_sample == BytesPerAudioSample(vi)
           audio_channels_count == vi.nchannels
           size == bytes_per_sample * vi.samples_per_frame * audio_channels_count
           cells == size \div BytesPerChannelSample(vi.sample_type)
       IN /\ samples_per_frame' = vi.samples_per_frame
          /\ m_audio_buffer_size' = size
          /\ m_audio_buffer' = [i \in 0..(cells - 1) |-> UninitRaw]
    /\ pc' = "ctor_layout"
    /\ UNCHANGED <<cfgvars, conv, status, err, cachevars, rangevars,
                   num_audioframe_buffers, frames_either_side,
                   pixels_per_audioframe, log_samples_per_pixel,
                   log_mono_samples_per_pixel, graph_scale, autoscale,
                   getframe, histvars>>

\* mutant: the clamp is to half the width
ClampEitherSide_Half(fes, width) ==
    IF fes > CDiv(width, 2) THEN CDiv(width, 2) ELSE fes

\* if (frames_either_side > vi.width / 4) frames_either_side = vi.width / 4;
ClampEitherSide(fes, width) ==
    IF fes > CDiv(width, 4) THEN CDiv(width, 4) ELSE fes

NumVisibleAudioframes(fes) == fes * 2 + 1

PixelsPerAudioframe(width, num_visible_audioframes) ==
    CDiv(width, num_visible_audioframes) + 1

\* Number of visible audioframes and the width of an audioframe.
Ctor_Layout ==
    /\ pc = "ctor_layout" /\ status = "constructing"
    /\ LET fes == ClampEitherSide(frames_either_side, vi.width)
           num_visible_audioframes == NumVisibleAudioframes(fes)
       IN /\ frames_either_side' = fes
          /\ pixels_per_audioframe' =
                 PixelsPerAudioframe(vi.width, num_visible_audioframes)
    /\ pc' = "ctor_cache"
    /\ UNCHANGED <<cfgvars, conv, status, err, bufvars, cachevars, rangevars,
                   samples_per_frame, num_audioframe_buffers,
                   log_samples_per_pixel, log_mono_samples_per_pixel,
                   graph_scale, autoscale, getframe, histvars>>

\* n = 1; while (n < num_visible_audioframes) n <<= 1;
RECURSIVE ShiftUntilAtLeast(_, _)
ShiftUntilAtLeast(n, num_visible_audioframes) ==
    IF n < num_visible_audioframes
      THEN ShiftUntilAtLeast(2 * n, num_visible_audioframes)
      ELSE n

\* mutant: no rounding up to a power of two
NumAudioframeBuffers_Exact(num_visible_audioframes) == num_visible_audioframes

\* mutant: the loop runs while n <= num_visible_audioframes
NumAudioframeBuffers_Beyond(num_visible_audioframes) ==
    ShiftUntilAtLeast(1, num_visible_audioframes + 1)

NumAudioframeBuffers(num_visible_audioframes) ==
    ShiftUntilAtLeast(1, num_visible_audioframes)

\* mutant: the tags start at 0
EmptyTag_Zero(num_buffers) == 0

\* The tag every cache_lookup entry starts with ("empty").
EmptyTag(num_buffers) == -num_buffers

\* Audioframe buffers and the cache_lookup tags.
Ctor_Cache ==
    /\ pc = "ctor_cache" /\ status = "constructing"
    /\ LET num == NumAudioframeBuffers(NumVisibleAudioframes(frames_either_side))
           size == pixels_per_audioframe * num
       IN /\ num_audioframe_buffers' = num
          /\ m_audioframe_buffers_size' = size
          /\ m_audioframe_buffers' = [i \in 0..(size - 1) |-> UninitWORD]
          /\ m_cache_lookup_size' = num
          /\ m_cache_lookup' = [i \in 0..(num - 1) |-> EmptyTag(num)]
          /\ computed' = [i \in 0..(num - 1) |->
                            [frame |-> NoFrame, requested |-> NoFrame,
                             scale |-> 0, failed |-> FALSE,
                             col |-> EmptyArray]]
    /\ pc' = "ctor_log_samples"
    /\ call' = call
    /\ played' = played
    /\ UNCHANGED <<cfgvars, conv, status, err, bufvars, rangevars,
                   samples_per_frame, frames_either_side,
                   pixels_per_audioframe, log_samples_per_pixel,
                   log_mono_samples_per_pixel, graph_scale, autoscale,
                   getframe>>

\* l = 0; while (1 << l < q) l++;
RECURSIVE IncrementUntilShifted(_, _)
IncrementUntilShifted(l, q) ==
    IF 2^l < q THEN IncrementUntilShifted(l + 1, q) ELSE l

LogSamplesPerPixel(spf, ppa) == IncrementUntilShifted(0, CDiv(spf, ppa))

\* log_samples_per_pixel and log_mono_samples_per_pixel.
Ctor_LogSamples ==
    /\ pc = "ctor_log_samples" /\ status = "constructing"
    /\ LET l == LogSamplesPerPixel(samples_per_frame, pixels_per_audioframe)
       IN /\ log_samples_per_pixel' = l
          /\ log_mono_samples_per_pixel' = l + (vi.nchannels - 1)
    /\ pc' = "ctor_sample_ranges"
    /\ UNCHANGED <<cfgvars, conv, status, err, bufvars, cachevars, rangevars,
                   samples_per_frame, num_audioframe_buffers,
                   frames_either_side, pixels_per_audioframe, graph_scale,
                   autoscale, getframe, histvars>>

\* mutant: the logarithm is subtracted, not the number of samples
StartOfLastSampleRange_NoShift(spf, lspp) == spf - lspp

StartOfLastSampleRange(spf, lspp) == spf - 2^lspp

\* m_sample_ranges[x_pixel] as a byte offset from m_audio_buffer
SampleRange(x_pixel, start_of_last_sample_range, ppa, bytes_per_sample) ==
    IF x_pixel = 0 THEN 0
    ELSE CDiv(x_pixel * start_of_last_sample_range, ppa - 1) * bytes_per_sample

\* The check of the audio buffer size and the table of sample ranges.
Ctor_SampleRanges ==
    /\ pc = "ctor_sample_ranges" /\ status = "constructing"
    /\ LET bytes_per_sample == BytesPerAudioSample(vi)
           start == StartOfLastSampleRange(samples_per_frame, log_samples_per_pixel)
       IN \E d \in DivOutcomes(pixels_per_audioframe * start, pixels_per_audioframe - 1) :
            IF d.trap
              THEN DivideFault /\ UNCHANGED rangevars
            ELSE IF m_audio_buffer_size <= d.q * bytes_per_sample
              THEN ThrowError("AudioGraph: invalid audio buffer size")
                   /\ UNCHANGED rangevars
            ELSE /\ m_sample_ranges_size' = pixels_per_audioframe
                 /\ m_sample_ranges' =
                      [x \in 0..(pixels_per_audioframe - 1) |->
                          SampleRange(x, start, pixels_per_audioframe, bytes_per_sample)]
                 /\ pc' = "ctor_scale"
                 /\ UNCHANGED <<status, err>>
    /\ UNCHANGED <<cfgvars, conv, bufvars, cachevars, layoutvars, graph_scale,
                   autoscale, getframe, histvars>>

\* The vertical scale factor: the argument, or the auto-scale prepass.
Ctor_Scale ==
    /\ pc = "ctor_scale" /\ status = "constructing"
    /\ IF args.graph_scale = 0
         THEN /\ graph_scale' = 1
              /\ autoscale' = [fi |-> 0, max_graph_y_pixel |-> 0]
              /\ pc' = "autoscale"
              /\ UNCHANGED status
         ELSE /\ graph_scale' = args.graph_scale
              /\ autoscale' = autoscale
              /\ pc' = "idle"
              /\ status' = "constructed"
    /\ UNCHANGED <<cfgvars, conv, err, bufvars, cachevars, rangevars, layoutvars,
                   getframe, histvars>>

(* ------------------------------------------------------------------ *)
(* The upstream audio source (child->GetAudio)                          *)
(* ------------------------------------------------------------------ *)
\* Stored sample values the source delivers: unsigned bytes with an offset
\* of 128 for 8-bit audio, signed shorts for 16-bit audio.
RawSamples(sample_type) ==
    IF sample_type = SAMPLE_INT8 THEN {0, 128, 255} ELSE {-32768, 0, 32767}

\* A reply of child->GetAudio: it throws AvisynthError, or it fills the
\* first count * channels cells of the buffer.
UpstreamReplies(sample_type) ==
    {[ok |-> FALSE, first |-> 0, rest |-> 0]}
      \cup {[ok |-> TRUE, first |-> a, rest |-> a] : a \in RawSamples(sample_type)}

\* child->GetAudio(m_audio_buffer, start, samples_per_frame, env) returned.
AudioRead(buf, reply, count, channels) ==
    [i \in DOMAIN buf |->
        IF i < count * channels
          THEN (IF i = 0 THEN reply.first ELSE reply.rest)
          ELSE buf[i]]

\* memset(m_audio_buffer, 0, m_audio_buffer_size)
ZeroFill(buf) == [i \in DOMAIN buf |-> 0]

(* ------------------------------------------------------------------ *)
(* AudioGraph::FillAudioFrame8 / FillAudioFrame16                       *)
(* ------------------------------------------------------------------ *)
\* The stored value src points at; a cell nothing has written (or a cell
\* outside the buffer) reads as some indeterminate value g.
ReadCell(buf, i, g) ==
    IF i \notin DOMAIN buf THEN g
    ELSE IF buf[i] = UninitRaw THEN g
    ELSE buf[i]

\* while (num_samples--) { y_pixel += *src - bias; src++; }
RECURSIVE SumSamples(_, _, _, _, _)
SumSamples(buf, cell, num_samples, bias, g) ==
    IF num_samples = 0 THEN 0
    ELSE (ReadCell(buf, cell, g) - bias)
           + SumSamples(buf, cell + 1, num_samples - 1, bias, g)

\* y_pixel >>= log_mono_samples_per_pixel (arithmetic shift)
ShiftRight(y, l) == y \div (2^l)

\* Clamp((y_pixel * vi.height / full_scale) * graph_scale, -height2, height2)
\* and the WORD stored in the audioframe buffer
YPixel(y_pixel, height, full_scale, scale) ==
    LET height2 == ShiftRight(height, 1)
    IN ToWORD(height2 + Clamp(CDiv(y_pixel * height, full_scale) * scale,
                              -height2, height2))

\* The x pixels a FillAudioFrame call stores before it returns or ends in
\* ThrowError("AudioGraph: x pixel ..."), which it does at the first
\* x_pixel >= m_sample_ranges_size.
FillCount ==
    IF pixels_per_audioframe > m_sample_ranges_size
      THEN m_sample_ranges_size ELSE pixels_per_audioframe

FillFault(sample_type) ==
    IF pixels_per_audioframe <= m_sample_ranges_size THEN ""
    ELSE IF sample_type = SAMPLE_INT16 THEN "AudioGraph: x pixel 16"
    ELSE "AudioGraph: x pixel 8"

\* The cell index of the byte offset m_sample_ranges[x_pixel]
SampleCell(x_pixel, bytes_per_cell) == m_sample_ranges[x_pixel] \div bytes_per_cell

\* The values the indeterminate cells can read as in one FillAudioFrame
\* call: only of interest when the call reads such a cell.
Garbage(buf, bytes_per_cell) ==
    IF \E x_pixel \in 0..(FillCount - 1) :
         \E k \in 0..(2^log_mono_samples_per_pixel - 1) :
            LET i == SampleCell(x_pixel, bytes_per_cell) + k
            IN i \notin DOMAIN buf \/ buf[i] = UninitRaw
      THEN GarbageRaw
      ELSE {0}

\* The signed 16-bit value of a stored short (an indeterminate byte pair g
\* is taken as the short g).
FillAudioFrame16(buf, scale, g) ==
    [x_pixel \in 0..(FillCount - 1) |->
        LET src == SampleCell(x_pixel, 2)
            y_pixel == SumSamples(buf, src, 2^log_mono_samples_per_pixel, 0, g)
        IN YPixel(ShiftRight(y_pixel, log_mono_samples_per_pixel),
                  vi.height, 65536, scale)]

FillAudioFrame8(buf, scale, g) ==
    [x_pixel \in 0..(FillCount - 1) |->
        LET src == SampleCell(x_pixel, 1)
            y_pixel == SumSamples(buf, src, 2^log_mono_samples_per_pixel, 128, g)
        IN YPixel(ShiftRight(y_pixel, log_mono_samples_per_pixel),
                  vi.height, 256, scale)]

(* ------------------------------------------------------------------ *)
(* ConvertAudio: the sample conversions of ConvertAudio::GetAudio       *)
(* ------------------------------------------------------------------ *)
\* Buffers are sequences of bytes (0..255), little-endian as on x86/x64.
\* The value of a signed short / a packed 24-bit sample / a signed int.
SignedShort(b0, b1) == (b0 + 256 * b1) - (IF b1 >= 128 THEN 65536 ELSE 0)
Signed24(b0, b1, b2) ==
    (b0 + 256 * b1) + 65536 * (IF b2 >= 128 THEN b2 - 256 ELSE b2)

\* The bytes of a value stored through a short* / unsigned short* and
\* through an unsigned char* (the store keeps the low 16 / 8 bits).
ShortBytes(x) == <<x % 256, (x \div 256) % 256>>
CharBytes(x) == <<x % 256>>

\* out[i] = in[i*3+1] | (in[i*3+2] << 8)
convert24To16(inbuf) == ShortBytes(BitOr(inbuf[2], inbuf[3] * 256))

\* mutant: the shift is by 7 bits
convert16To8_Shift7(inbuf) ==
    CharBytes(ShiftRight(SignedShort(inbuf[1], inbuf[2]), 7) + 128)

\* out[i] = (in[i] >> 8) + 128
convert16To8(inbuf) ==
    CharBytes(ShiftRight(SignedShort(inbuf[1], inbuf[2]), 8) + 128)

\* out[i] = ((in[i]-128) << 8) | in[i]   (the compilers of the makefiles
\* shift a negative int arithmetically)
convert8To16(inbuf) == ShortBytes(BitOr((inbuf[1] - 128) * 256, inbuf[1]))

\* A float is the record [num, e] of the value num / 2^e.  Every float
\* the conversions below compute from an 8-, 16- or 24-bit sample has at
\* most 24 significant bits, so the float arithmetic of the code is exact.
FloatOf(num, e) == [num |-> num, e |-> e]
\* f * 2^k
FloatScale(f, k) ==
    IF f.e >= k THEN FloatOf(f.num, f.e - k)
    ELSE FloatOf(f.num * 2^(k - f.e), 0)
FloatFloor(f) == f.num \div (2^f.e)
FloatIsInt(f) == f.num % (2^f.e) = 0
FloatCeil(f) == FloatFloor(f) + (IF FloatIsInt(f) THEN 0 ELSE 1)
\* (int)(n + 0.5f): the sum, truncated towards zero
TruncPlusHalf(n) ==
    LET half == IF n.e = 0 THEN 0 ELSE 2^(n.e - 1)
        r == n.num % (2^n.e)
        floor_sum == FloatFloor(n) + (IF n.e > 0 /\ r >= half THEN 1 ELSE 0)
        sum_is_int == n.e > 0 /\ r = half
    IN IF floor_sum >= 0 \/ sum_is_int THEN floor_sum ELSE floor_sum + 1

Saturate_int8(n) ==
    IF FloatCeil(n) <= -128 THEN -128
    ELSE IF FloatFloor(n) >= 127 THEN 127
    ELSE TruncPlusHalf(n)

Saturate_int16(n) ==
    IF FloatCeil(n) <= -32768 THEN -32768
    ELSE IF FloatFloor(n) >= 32767 THEN 32767
    ELSE TruncPlusHalf(n)

\* ConvertAudio::convertToFloat for one sample of an integer type (a
\* SAMPLE_FLOAT source holds floats, which this model does not convert)
convertToFloat(inbuf, sample_type) ==
    CASE sample_type = SAMPLE_INT8 -> FloatOf(inbuf[1] - 128, 7)
      [] sample_type = SAMPLE_INT16 -> FloatOf(SignedShort(inbuf[1], inbuf[2]), 15)
      [] sample_type = SAMPLE_INT32 ->
            FloatOf(inbuf[1] + 256 * Signed24(inbuf[2], inbuf[3], inbuf[4]), 31)
      [] sample_type = SAMPLE_INT24 ->
            FloatOf(Signed24(inbuf[1], inbuf[2], inbuf[3]) * 256, 31)
      [] OTHER -> FloatOf(0, 0)

\* ConvertAudio::convertFromFloat for one sample, to 8 or 16 bits
convertFromFloat(f, sample_type) ==
    CASE sample_type = SAMPLE_INT8 ->
            CharBytes((Saturate_int8(FloatScale(f, 7)) % 256) + 128)
      [] sample_type = SAMPLE_INT16 ->
            ShortBytes(Saturate_int16(FloatScale(f, 15)))
      [] OTHER -> <<>>

\* The pairs ConvertAudio::GetAudio converts without the float buffer.
FastPath(src_format, dst_format) ==
    \/ src_format = SAMPLE_INT24 /\ dst_format = SAMPLE_INT16
    \/ src_format = SAMPLE_INT8 /\ dst_format = SAMPLE_INT16
    \/ src_format = SAMPLE_INT16 /\ dst_format = SAMPLE_INT8

\* What ConvertAudio::GetAudio stores in buf for one sample in tempbuffer.
ConvertedSample(tempbuffer, src_format, dst_format) ==
    IF src_format = SAMPLE_INT24 /\ dst_format = SAMPLE_INT16
      THEN convert24To16(tempbuffer)
    ELSE IF src_format = SAMPLE_INT8 /\ dst_format = SAMPLE_INT16
      THEN convert8To16(tempbuffer)
    ELSE IF src_format = SAMPLE_INT16 /\ dst_format = SAMPLE_INT8
      THEN convert16To8(tempbuffer)
    ELSE convertFromFloat(convertToFloat(tempbuffer, src_format), dst_format)

(* ------------------------------------------------------------------ *)
(* AudioGraph::GetAudioFrame                                            *)
(* ------------------------------------------------------------------ *)
\* audioframe_index = frame & (num_audioframe_buffers - 1)
AudioframeIndex(frame, num_buffers) == BitAnd(frame, num_buffers - 1)

\* mutant: the tag is compared by its slot only
CacheHit_SlotOnly(lookup, audioframe_index, frame) ==
    AudioframeIndex(lookup[audioframe_index], num_audioframe_buffers)
      = AudioframeIndex(frame, num_audioframe_buffers)

\* mutant: the tag is compared with the slot index instead of the frame
CacheHit_ByIndex(lookup, audioframe_index, frame) ==
    lookup[audioframe_index] = audioframe_index

\* if (m_cache_lookup[audioframe_index] != frame)  -- the negation: a hit
CacheHit(lookup, audioframe_index, frame) == lookup[audioframe_index] = frame

\* The audioframe the returned pointer addresses.
Audioframe(buffers, audioframe_buffer_index) ==
    [x \in 0..(pixels_per_audioframe - 1) |->
        IF audioframe_buffer_index + x \in DOMAIN buffers
          THEN buffers[audioframe_buffer_index + x]
          ELSE UninitWORD]

\* The stores of FillAudioFrame into the audioframe buffer.
StoreAudioframe(buffers, audioframe_buffer_index, column) ==
    [i \in DOMAIN buffers |->
        IF i >= audioframe_buffer_index
           /\ (i - audioframe_buffer_index) \in DOMAIN column
          THEN column[i - audioframe_buffer_index]
          ELSE buffers[i]]

\* mutant: the tag is not stored
StoreTag_Skipped(lookup, audioframe_index, frame) == lookup

\* m_cache_lookup[audioframe_index] = frame
StoreTag(lookup, audioframe_index, frame) ==
    [lookup EXCEPT ![audioframe_index] = frame]

\* The message of the ThrowError that ends GetAudioFrame(frame) before the
\* audio is read, or "" when there is none.
GetAudioFrameFault(frame) ==
    LET audioframe_index == AudioframeIndex(frame, num_audioframe_buffers)
        audioframe_buffer_index == audioframe_index * pixels_per_audioframe
    IN IF audioframe_buffer_index >= m_audioframe_buffers_size
         THEN "AudioGraph: audioframe buffer index"
       ELSE IF audioframe_index >= m_cache_lookup_size
         THEN "AudioGraph: audioframe index"
       ELSE IF CacheHit(m_cache_lookup, audioframe_index, frame)
         THEN ""
       ELSE IF vi.sample_type = SAMPLE_INT16
         THEN (IF samples_per_frame * 2 > m_audio_buffer_size
                 THEN "AudGraph: invalid buf size 16" ELSE "")
       ELSE IF vi.sample_type = SAMPLE_INT8
         THEN (IF samples_per_frame > m_audio_buffer_size
                 THEN "AudGraph: invalid buf size 8" ELSE "")
       ELSE "AudGraph: invalid sample type"

\* One call of GetAudioFrame(frame): the effect on the cache, the raw audio
\* buffer and the history variables.  call'.threw # "" when the call ended
\* in ThrowError; otherwise call'.ret is the audioframe returned.
GetAudioFrame(frame) ==
    LET audioframe_index == AudioframeIndex(frame, num_audioframe_buffers)
        audioframe_buffer_index == audioframe_index * pixels_per_audioframe
        fault == GetAudioFrameFault(frame)
        requested == IF audioframe_index \in DOMAIN computed
                       THEN computed[audioframe_index].requested ELSE NoFrame
        this == [valid |-> TRUE,
                 caller |-> IF status = "constructing"
                              THEN "GetGraphAutoScale" ELSE "GetFrame",
                 frame |-> frame, index |-> audioframe_index,
                 hit |-> FALSE, reads |-> 0, failed |-> FALSE, threw |-> "",
                 collided |-> (requested # NoFrame /\ requested # frame),
                 repeated |-> (requested = frame),
                 ret |-> EmptyArray]
    IN IF fault # ""
         THEN /\ call' = [this EXCEPT !.threw = fault]
              /\ UNCHANGED <<m_audio_buffer, m_cache_lookup,
                             m_audioframe_buffers, computed>>
       ELSE IF CacheHit(m_cache_lookup, audioframe_index, frame)
         THEN /\ call' = [this EXCEPT !.hit = TRUE,
                            !.ret = Audioframe(m_audioframe_buffers,
                                               audioframe_buffer_index)]
              /\ computed' = [computed EXCEPT ![audioframe_index].requested = frame]
              /\ UNCHANGED <<m_audio_buffer, m_cache_lookup, m_audioframe_buffers>>
       ELSE \E reply \in UpstreamReplies(vi.sample_type) :
            LET buf == IF reply.ok
                         THEN AudioRead(m_audio_buffer, reply,
                                        samples_per_frame, vi.nchannels)
                         ELSE ZeroFill(m_audio_buffer)
            IN \E g \in Garbage(buf, BytesPerChannelSample(vi.sample_type)) :
              LET column == IF vi.sample_type = SAMPLE_INT16
                              THEN FillAudioFrame16(buf, graph_scale, g)
                              ELSE FillAudioFrame8(buf, graph_scale, g)
              IN /\ m_audio_buffer' = buf
                 /\ m_audioframe_buffers' =
                      StoreAudioframe(m_audioframe_buffers,
                                      audioframe_buffer_index, column)
                 /\ IF FillFault(vi.sample_type) # ""
                      THEN /\ call' = [this EXCEPT !.reads = 1, !.failed = ~reply.ok,
                                         !.threw = FillFault(vi.sample_type)]
                           /\ UNCHANGED <<m_cache_lookup, computed>>
                      ELSE /\ m_cache_lookup' =
                                StoreTag(m_cache_lookup, audioframe_index, frame)
                           /\ call' = [this EXCEPT !.reads = 1, !.failed = ~reply.ok,
                                         !.ret = Audioframe(m_audioframe_buffers',
                                                            audioframe_buffer_index)]
                           /\ computed' = [computed EXCEPT ![audioframe_index] =
                                             [frame |-> frame, requested |-> frame,
                                              scale |-> graph_scale,
                                              failed |-> ~reply.ok,
                                              col |-> column]]

(* ------------------------------------------------------------------ *)
(* AudioGraph::GetGraphAutoScale                                        *)
(* ------------------------------------------------------------------ *)
Max(a, b) == IF a > b THEN a ELSE b

\* The inner loop of GetGraphAutoScale over one audioframe.
RECURSIVE MaxDeflection(_, _, _, _)
MaxDeflection(audioframe, x_pixel, height2, max_graph_y_pixel) ==
    IF x_pixel >= pixels_per_audioframe THEN max_graph_y_pixel
    ELSE LET y_pixel == Abs(audioframe[x_pixel] - height2)
         IN MaxDeflection(audioframe, x_pixel + 1, height2,
                          IF max_graph_y_pixel < y_pixel
                            THEN y_pixel ELSE max_graph_y_pixel)

\* One iteration of the loop over the frames of the clip.
AutoScale_Frame ==
    /\ pc = "autoscale" /\ status = "constructing"
    /\ autoscale.fi < vi.num_frames
    /\ GetAudioFrame(autoscale.fi)
    /\ IF call'.threw # ""
         THEN ThrowError(call'.threw) /\ autoscale' = autoscale
         ELSE /\ autoscale' =
                   [fi |-> autoscale.fi + 1,
                    max_graph_y_pixel |->
                        MaxDeflection(call'.ret, 0, ShiftRight(vi.height, 1),
                                      autoscale.max_graph_y_pixel)]
              /\ UNCHANGED ctlvars
    /\ UNCHANGED <<cfgvars, conv, m_audio_buffer_size, m_cache_lookup_size,
                   m_audioframe_buffers_size, rangevars, layoutvars,
                   graph_scale, getframe, played>>

\* int result = height2/max_graph_y_pixel; return !result ? 1 : result;
\* and the assignment to graph_scale in the constructor.
AutoScale_Finish ==
    /\ pc = "autoscale" /\ status = "constructing"
    /\ autoscale.fi >= vi.num_frames
    /\ \E d \in DivOutcomes(ShiftRight(vi.height, 1), autoscale.max_graph_y_pixel) :
         IF d.trap
           THEN DivideFault /\ UNCHANGED graph_scale
           ELSE /\ graph_scale' = (IF d.q = 0 THEN 1 ELSE d.q)
                /\ pc' = "idle"
                /\ status' = "constructed"
                /\ UNCHANGED err
    /\ UNCHANGED <<cfgvars, conv, bufvars, cachevars, rangevars, layoutvars,
                   autoscale, getframe, histvars>>

(* ------------------------------------------------------------------ *)
(* AudioGraph::GetFrame (the calls of GetAudioFrame; the drawing of the  *)
(* pixels into the video frame is not modelled)                         *)
(* ------------------------------------------------------------------ *)
\* pixels_per_row of the loop GetFrame runs for the clip's pixel type
PixelsPerRow(v) ==
    IF v.pixel_type \in {"YUY2", "RGB24", "RGB32"} THEN v.width ELSE 0

\* played at the entry of GetFrame(n)
EnterGetFrame(n) ==
    [NoPlay EXCEPT !.recording = played.recording, !.n = n,
                   !.prev_n = played.n, !.prev_complete = played.complete]

\* played after the GetAudioFrame(frame) call this_call of GetFrame
RecordCall(play, frame, this_call, returns) ==
    [play EXCEPT !.count = @ + 1,
                 !.reads = @ + this_call.reads,
                 !.first = IF play.count = 0 THEN frame ELSE @,
                 !.last = frame,
                 !.consecutive = @ /\ (play.count > 0 => frame = play.last + 1),
                 !.slots = @ \cup {this_call.index},
                 !.complete = returns]

\* The drawing loop from one x_pixel == pixels_per_audioframe to the next:
\* GetAudioFrame(frame), then up to pixels_per_audioframe pixels are drawn;
\* with no pixel left the loop ends and GetFrame returns dst.  A ThrowError
\* of GetAudioFrame leaves GetFrame.
DrawAudioframe(n, frame, pixels_per_row) ==
    /\ GetAudioFrame(frame)
    /\ played' = IF played.recording
                   THEN RecordCall(IF pc = "idle" THEN EnterGetFrame(n) ELSE played,
                                   frame, call',
                                   call'.threw = ""
                                     /\ pixels_per_row <= pixels_per_audioframe)
                   ELSE played
    /\ IF call'.threw # ""
         THEN /\ pc' = "idle"
              /\ err' = call'.threw
              /\ getframe' = NoGetFrame
         ELSE IF pixels_per_row > pixels_per_audioframe
           THEN /\ pc' = "getframe"
                /\ err' = err
                /\ getframe' = [n |-> n, frame |-> frame + 1,
                                pixels_per_row |->
                                    pixels_per_row - pixels_per_audioframe]
         ELSE /\ pc' = "idle"
              /\ err' = err
              /\ getframe' = NoGetFrame

\* GetFrame(n) from its entry to the end of the first audioframe drawn.
GetFrame_Begin ==
    /\ pc = "idle" /\ status = "constructed"
    /\ \E n \in 0..MaxN :
         IF PixelsPerRow(vi) > 0
           THEN DrawAudioframe(n, n - frames_either_side, PixelsPerRow(vi))
           ELSE /\ played' = IF played.recording
                              THEN [EnterGetFrame(n) EXCEPT !.complete = TRUE]
                              ELSE played
                /\ UNCHANGED <<pc, err, getframe, m_audio_buffer, m_cache_lookup,
                               m_audioframe_buffers, call, computed>>
    /\ UNCHANGED <<cfgvars, conv, status, m_audio_buffer_size, m_cache_lookup_size,
                   m_audioframe_buffers_size, rangevars, layoutvars,
                   graph_scale, autoscale>>

\* GetFrame(n) from one audioframe to the next, or to its return.
GetFrame_Column ==
    /\ pc = "getframe" /\ status = "constructed"
    /\ DrawAudioframe(getframe.n, getframe.frame, getframe.pixels_per_row)
    /\ UNCHANGED <<cfgvars, conv, status, m_audio_buffer_size, m_cache_lookup_size,
                   m_audioframe_buffers_size, rangevars, layoutvars,
                   graph_scale, autoscale>>

(* ------------------------------------------------------------------ *)
(* ConvertAudio::GetAudio                                               *)
(* ------------------------------------------------------------------ *)
\* ConvertAudio::GetAudio for one sample of one channel: the fast paths,
\* or convertToFloat and convertFromFloat.
ConvertAudio_GetAudio ==
    /\ conv.src_format # 0 /\ ~conv.returned
    /\ conv' = [conv EXCEPT !.returned = TRUE,
                            !.buf = ConvertedSample(conv.tempbuffer,
                                                    conv.src_format,
                                                    conv.dst_format)]
    /\ UNCHANGED <<cfgvars, ctlvars, bufvars, cachevars, rangevars,
                   layoutvars, graph_scale, autoscale, getframe, histvars>>

\* The same sample through the float buffer: convertToFloat into
\* floatbuffer, convertFromFloat into the destination.
ConvertThroughFloat ==
    /\ conv.src_format # 0 /\ ~conv.through_float
    /\ conv' = [conv EXCEPT !.through_float = TRUE,
                            !.float_buf =
                                convertFromFloat(
                                    convertToFloat(conv.tempbuffer,
                                                   conv.src_format),
                                    conv.dst_format)]
    /\ UNCHANGED <<cfgvars, ctlvars, bufvars, cachevars, rangevars,
                   layoutvars, graph_scale, autoscale, getframe, histvars>>

(* ------------------------------------------------------------------ *)
(* Specifications                                                       *)
(* ------------------------------------------------------------------ *)
Clips(widths, heights, frames, types, channels, samples, audio, pixels) ==
    [width : widths, height : heights, num_frames : frames,
     sample_type : types, nchannels : channels, samples_per_frame : samples,
     has_audio : audio, pixel_type : pixels]

Arguments(sides, scales) == [frames_either_side : sides, graph_scale : scales]

\* Spec: every width up to MaxWidth (one slot and several slots), one
\* sample per frame.
Init ==
    InitFor(Clips(0..MaxWidth, {MaxHeight}, {MaxNumFrames},
                  {SAMPLE_INT8, SAMPLE_INT16, SAMPLE_FLOAT}, 1..MaxChannels,
                  {1}, {TRUE}, {"RGB32"}),
            Arguments(0..MaxEitherSide, {0, MaxScale}), {NoConv}, {FALSE})

Construct ==
    \/ Ctor_Validate
    \/ Ctor_AudioBuffer
    \/ Ctor_Layout
    \/ Ctor_Cache
    \/ Ctor_LogSamples
    \/ Ctor_SampleRanges
    \/ Ctor_Scale

Next ==
    \/ Ctor_Validate
    \/ Ctor_AudioBuffer
    \/ Ctor_Layout
    \/ Ctor_Cache
    \/ Ctor_LogSamples
    \/ Ctor_SampleRanges
    \/ Ctor_Scale
    \/ AutoScale_Frame
    \/ AutoScale_Finish
    \/ GetFrame_Begin
    \/ GetFrame_Column

Spec == Init /\ [][Next]_vars

InitCtor ==
    InitFor(Clips(0..MaxCtorWidth, {2}, {0}, SampleTypes, 1..MaxCtorChannels,
                  1..MaxCtorSamples, BOOLEAN, PixelTypes),
            Arguments((-1)..MaxCtorEitherSide, {1}), {NoConv}, {FALSE})

SpecCtor == InitCtor /\ [][Construct]_vars

\* SpecColumn: one-slot caches, every picture height and scale.
InitColumn ==
    InitFor(Clips({1}, 1..MaxHeight, 0..MaxNumFrames,
                  {SAMPLE_INT8, SAMPLE_INT16}, 1..MaxChannels,
                  1..MaxSamplesPerFrame, {TRUE}, {"YUY2"}),
            Arguments({0}, (-1)..MaxScale), {NoConv}, {FALSE})

\* With no side frames an audioframe is wider than the picture, so GetFrame
\* draws one audioframe and GetFrame_Column is never enabled.
NextColumn ==
    \/ Ctor_Validate
    \/ Ctor_AudioBuffer
    \/ Ctor_Layout
    \/ Ctor_Cache
    \/ Ctor_LogSamples
    \/ Ctor_SampleRanges
    \/ Ctor_Scale
    \/ AutoScale_Frame
    \/ AutoScale_Finish
    \/ GetFrame_Begin

SpecColumn == InitColumn /\ [][NextColumn]_vars

\* SpecConvert: one sample through ConvertAudio::GetAudio and through the
\* float buffer, for the pairs of formats with a fast path and for
\* Int24 -> Int8, which has none.
ByteSamples ==
    (0..MaxSpread) \cup ((128 - MaxSpread)..(128 + MaxSpread))
      \cup ((255 - MaxSpread)..255)

Conversion(src_format, dst_format, tempbuffers) ==
    {[src_format |-> src_format, dst_format |-> dst_format, tempbuffer |-> t,
      returned |-> FALSE, buf |-> <<>>,
      through_float |-> FALSE, float_buf |-> <<>>] : t \in tempbuffers}

Conversions ==
    Conversion(SAMPLE_INT8, SAMPLE_INT16, {<<b>> : b \in 0..255})
      \cup Conversion(SAMPLE_INT16, SAMPLE_INT8,
                      {<<b0, b1>> : b0 \in ByteSamples, b1 \in 0..255})
      \cup Conversion(SAMPLE_INT24, SAMPLE_INT16,
                      {<<b0, b1, b2>> : b0 \in ByteSamples, b1 \in ByteSamples,
                                        b2 \in 0..255})
      \cup Conversion(SAMPLE_INT24, SAMPLE_INT8,
                      {<<b0, b1, b2>> : b0 \in {0}, b1 \in ByteSamples,
                                        b2 \in ByteSamples})

InitConvert ==
    InitFor(Clips({1}, {2}, {0}, {SAMPLE_INT24}, {1}, {1}, {TRUE}, {"RGB32"}),
            Arguments({0}, {1}), Conversions, {FALSE})

NextConvert ==
    \/ ConvertAudio_GetAudio
    \/ ConvertThroughFloat

SpecConvert == InitConvert /\ [][NextConvert]_vars

\* SpecPlay: GetFrame calls on 16-bit mono clips of every width up to
\* MaxPlayWidth, with the calls recorded in played; no auto-scale.
InitPlay ==
    InitFor(Clips(1..MaxPlayWidth, {2}, {MaxNumFrames}, {SAMPLE_INT16}, {1},
                  {1}, {TRUE}, {"RGB24"}),
            Arguments(0..MaxPlayEitherSide, {1}), {NoConv}, {TRUE})

NextPlay ==
    \/ Ctor_Validate
    \/ Ctor_AudioBuffer
    \/ Ctor_Layout
    \/ Ctor_Cache
    \/ Ctor_LogSamples
    \/ Ctor_SampleRanges
    \/ Ctor_Scale
    \/ GetFrame_Begin
    \/ GetFrame_Column

SpecPlay == InitPlay /\ [][NextPlay]_vars

(* ------------------------------------------------------------------ *)
(* Properties                                                           *)
(* ------------------------------------------------------------------ *)
Constructed == status = "constructed"

\* A GetAudioFrame call has returned to its caller (no ThrowError).
Returned == call.valid /\ call.threw = ""

Slots == DOMAIN m_cache_lookup

\* The audioframe stored in a slot.
SlotColumn(slot) == Audioframe(m_audioframe_buffers, slot * pixels_per_audioframe)

Height2 == vi.height \div 2

\* C1: in every reachable state a slot whose tag is a frame f holds the
\* column the most recent recompute for f produced, and a GetAudioFrame(f)
\* call that returned has returned that column; after a request for a
\* colliding frame the call has recomputed, not returned the other column.
C1_CacheCorrect ==
    /\ \A slot \in Slots :
          m_cache_lookup[slot] # EmptyTag(num_audioframe_buffers)
            => /\ computed[slot].frame = m_cache_lookup[slot]
               /\ SlotColumn(slot) = computed[slot].col
    /\ Returned
         => /\ call.index \in Slots
            /\ m_cache_lookup[call.index] = call.frame
            /\ computed[call.index].frame = call.frame
            /\ call.ret = computed[call.index].col
            /\ call.collided => ~call.hit

\* C1 witness: a call for f has recomputed after a colliding frame held the
\* slot, in a cache of several slots.
C1_Witness ==
    /\ Returned /\ call.collided /\ ~call.hit
    /\ num_audioframe_buffers > 1
    /\ call.ret = computed[call.index].col
    /\ \E x \in DOMAIN call.ret : call.ret[x] # Height2

\* A step in which GetAudioFrame is called (GetFrame or the prepass).
CallStep ==
    /\ \/ status = "constructed" /\ pc \in {"idle", "getframe"}
       \/ /\ status = "constructing" /\ pc = "autoscale"
          /\ autoscale.fi < vi.num_frames
    /\ call'.valid

\* C2: a GetAudioFrame(f) call that finds tag[slot(f)] = f reads nothing
\* from upstream and leaves the tags, the columns and the raw audio buffer
\* as they were; of two calls for the same f with no call in between the
\* second reads nothing, so the two read once when the first had to compute
\* (pixels_per_audioframe = 101 and one slot for width 100, no side frames).
C2_HitReadsNothing ==
    /\ PixelsPerAudioframe(100, NumVisibleAudioframes(ClampEitherSide(0, 100))) = 101
    /\ NumAudioframeBuffers(NumVisibleAudioframes(ClampEitherSide(0, 100))) = 1
    /\ [][CallStep =>
            LET f == call'.frame
                slot == AudioframeIndex(f, num_audioframe_buffers)
            IN /\ m_cache_lookup[slot] = f
                    => /\ call'.reads = 0
                       /\ call'.threw = ""
                       /\ UNCHANGED <<m_cache_lookup, m_audioframe_buffers,
                                      m_audio_buffer>>
               /\ (Returned /\ call.frame = f)
                    => /\ call'.reads = 0
                       /\ call.reads + call'.reads = (IF call.hit THEN 0 ELSE 1)
        ]_vars

\* C2 witness: a call has found its frame cached.
C2_Witness == Returned /\ call.hit /\ call.reads = 0 /\ call.repeated

\* C3: frames f and f + k*num_slots (k # 0) share one slot, so at most one
\* of them is tagged; a call for one of them after the other was requested
\* reads from upstream and recomputes (slot 2 of 8 for frames 10 and 18
\* with 3 frames either side).
C3_CollidingFramesRecompute ==
    /\ NumAudioframeBuffers(NumVisibleAudioframes(3)) = 8
    /\ AudioframeIndex(10, 8) = 2 /\ AudioframeIndex(18, 8) = 2
    /\ num_audioframe_buffers >= 1
         => \A f \in (-MaxEitherSide - 1)..(MaxN + MaxWidth) :
              \A k \in {-2, -1, 1, 2} :
                LET g == f + k * num_audioframe_buffers
                    slot == AudioframeIndex(f, num_audioframe_buffers)
                IN /\ AudioframeIndex(g, num_audioframe_buffers) = slot
                   /\ slot \in Slots
                        => ~(m_cache_lookup[slot] = f /\ m_cache_lookup[slot] = g)
    /\ (Returned /\ call.collided)
         => /\ call.reads = 1
            /\ ~call.hit
            /\ m_cache_lookup[call.index] = call.frame
            /\ computed[call.index].frame = call.frame

\* C3 witness: a call has replaced a colliding frame in a cache of several
\* slots.
C3_Witness ==
    /\ Returned /\ call.collided /\ call.reads = 1
    /\ num_audioframe_buffers > 1
    /\ m_cache_lookup[call.index] = call.frame

\* C4: after a failed upstream read the returned column is flat at
\* height/2, for 8-bit and 16-bit audio, every height and every scale.
C4_SilenceIsFlat ==
    (Returned /\ call.failed)
      => \A x \in DOMAIN call.ret : call.ret[x] = Height2

\* C5: a failed upstream read does not reach the caller and the slot is
\* tagged with the frame; later calls for the frame return the substituted
\* column without reading until a colliding frame has taken the slot.
C5_FailureIsCached ==
    /\ (call.valid /\ call.failed)
         => /\ call.threw = ""
            /\ call.reads = 1
            /\ m_cache_lookup[call.index] = call.frame
            /\ computed[call.index].failed
            /\ call.ret = SlotColumn(call.index)
    /\ (Returned /\ call.repeated)
         => /\ call.reads = 0
            /\ call.ret = computed[call.index].col
    /\ (Returned /\ call.reads = 1) => ~call.repeated

\* C5 witness: a later call has returned the column substituted after a
\* failed read, from the cache.
C5_Witness ==
    /\ Returned /\ call.hit /\ call.repeated
    /\ computed[call.index].failed
    /\ call.ret = computed[call.index].col

\* The constructor has passed the computation of the audioframe width.
LayoutDone ==
    pc \in {"ctor_cache", "ctor_log_samples", "ctor_sample_ranges",
            "ctor_scale", "autoscale", "idle", "getframe"}

\* The constructor has passed the allocation of the audioframe buffers.
CacheDone ==
    pc \in {"ctor_log_samples", "ctor_sample_ranges", "ctor_scale",
            "autoscale", "idle", "getframe"}

Min(a, b) == IF a < b THEN a ELSE b

\* C6: for every width >= 1 and every frames_either_side >= 0 the clamp
\* to width/4 makes pixels_per_audioframe = width \div (2*fes + 1) + 1 at
\* least 2, so the divisor pixels_per_audioframe - 1 is not zero.
C6_AudioframeAtLeast2Pixels ==
    (LayoutDone /\ vi.width >= 1)
      => /\ frames_either_side = Min(args.frames_either_side, vi.width \div 4)
         /\ pixels_per_audioframe
              = (vi.width \div (2 * frames_either_side + 1)) + 1
         /\ pixels_per_audioframe >= 2
         /\ pixels_per_audioframe - 1 # 0

\* C6 witness: the clamp has lowered frames_either_side and left an
\* audioframe of exactly 2 pixels at the sample-range computation.
C6_Witness ==
    /\ pc = "ctor_sample_ranges" /\ vi.width >= 1
    /\ args.frames_either_side > vi.width \div 4
    /\ frames_either_side = vi.width \div 4
    /\ pixels_per_audioframe = 2

IsPowerOfTwo(n) == \E k \in 0..30 : n = 2^k

\* C7: num_slots is the smallest power of two that is at least
\* 2*frames_either_side + 1 (after the clamp), and no later step of the
\* constructor changes it.
C7_SmallestPowerOfTwo ==
    /\ [](CacheDone
            => LET num_visible == 2 * frames_either_side + 1
               IN /\ IsPowerOfTwo(num_audioframe_buffers)
                  /\ num_audioframe_buffers >= num_visible
                  /\ \A m \in 1..num_audioframe_buffers :
                        (IsPowerOfTwo(m) /\ m >= num_visible)
                          => m >= num_audioframe_buffers)
    /\ [][CacheDone => num_audioframe_buffers' = num_audioframe_buffers]_vars

\* C7 witness: 3 frames either side, 7 visible audioframes, 8 slots.
C7_Witness ==
    /\ pc = "ctor_scale"
    /\ frames_either_side = 3
    /\ num_audioframe_buffers = 8

\* C8: a constructor in auto-scale mode completes for every clip and sets
\* vertical_scale = max(1, (height/2) \div max_deflection), which is >= 1.
C8_AutoScaleCompletes ==
    (args.graph_scale = 0
       /\ \/ pc \in {"idle", "getframe"}
          \/ pc = "autoscale" /\ status # "constructing")
      => /\ status = "constructed"
         /\ graph_scale >= 1
         /\ autoscale.max_graph_y_pixel > 0
              => graph_scale = Max(1, Height2 \div autoscale.max_graph_y_pixel)

\* C10: a constructor given a width <= 0 ends in a ThrowError; it does not
\* reach the sample-range computation with pixels_per_audioframe - 1 = 0
\* and no filter is constructed.
C10_NonPositiveWidthRejected ==
    vi.width <= 0
      => /\ ~(pc = "ctor_sample_ranges" /\ pixels_per_audioframe - 1 = 0)
         /\ status \in {"constructing", "error"}

\* Both routes have converted the sample of a pair that has a fast path.
BothConverted ==
    conv.returned /\ conv.through_float
      /\ FastPath(conv.src_format, conv.dst_format)

\* The signed value of the sample in tempbuffer and of a converted sample.
SourceValue ==
    CASE conv.src_format = SAMPLE_INT8 -> conv.tempbuffer[1]
      [] conv.src_format = SAMPLE_INT16 ->
            SignedShort(conv.tempbuffer[1], conv.tempbuffer[2])
      [] OTHER -> Signed24(conv.tempbuffer[1], conv.tempbuffer[2],
                           conv.tempbuffer[3])
DestValue(bytes) ==
    IF conv.dst_format = SAMPLE_INT16 THEN SignedShort(bytes[1], bytes[2])
    ELSE bytes[1]

FrameSamples ==
    {IntMin, IntMin + 1, IntMin + 5, -1025, -17, IntMax - 9, IntMax - 1, IntMax}
      \cup ((-2 * MaxWidth - 1)..(2 * MaxWidth + MaxN))

\* f + k on 32-bit ints (k > 0), wrapping round at INT_MAX
WrapAdd(f, k) ==
    IF f > IntMax - k THEN ((f - IntMax) + (k - 1)) + IntMin ELSE f + k

IndexFaults ==
    {"AudioGraph: audioframe buffer index", "AudioGraph: audioframe index"}

\* C12: once the cache is allocated, for every 32-bit frame index f the
\* slot f & (num_slots - 1) is in 0..num_slots-1 and is the slot of
\* f + num_slots, the columns slot*ppa .. (slot+1)*ppa - 1 are cells of the
\* audioframe buffer array, and GetAudioFrame(f) does not end in the
\* "audioframe buffer index" or "audioframe index" error; no call made has.
C12_SlotInRange ==
    /\ CacheDone =>
         \A f \in FrameSamples :
            LET slot == AudioframeIndex(f, num_audioframe_buffers)
            IN /\ slot \in 0..(num_audioframe_buffers - 1)
               /\ slot = AudioframeIndex(WrapAdd(f, num_audioframe_buffers),
                                         num_audioframe_buffers)
               /\ slot \in DOMAIN m_cache_lookup
               /\ \A x \in 0..(pixels_per_audioframe - 1) :
                     slot * pixels_per_audioframe + x \in DOMAIN m_audioframe_buffers
               /\ GetAudioFrameFault(f) \notin IndexFaults
    /\ call.valid =>
         /\ call.threw \notin IndexFaults
         /\ call.index \in 0..(num_audioframe_buffers - 1)

\* C12 witness: GetAudioFrame has returned for a negative frame, which
\* took the last of several slots.
C12_Witness ==
    /\ Returned /\ call.frame < 0
    /\ num_audioframe_buffers > 1
    /\ call.index = num_audioframe_buffers - 1
    /\ call.index = AudioframeIndex(call.frame + num_audioframe_buffers,
                                    num_audioframe_buffers)

\* C13: after a construction without auto-scale, before any request, every
\* tag is -num_slots; every frame GetFrame requests is >= -frames_either_side
\* and so is not that tag; the first request that reaches a slot is a miss
\* that reads and recomputes, and no call returns a cell of the audioframe
\* buffers that nothing has written.
C13_SentinelNeverHit ==
    /\ (Constructed /\ args.graph_scale # 0 /\ ~call.valid)
         => \A slot \in Slots :
               /\ m_cache_lookup[slot] = -num_audioframe_buffers
               /\ \A n \in 0..MaxN :
                    \A k \in 0..(2 * frames_either_side) :
                       /\ (n - frames_either_side) + k >= -frames_either_side
                       /\ (n - frames_either_side) + k # m_cache_lookup[slot]
    /\ (Constructed /\ call.valid)
         => /\ call.frame >= -frames_either_side
            /\ call.frame # -num_audioframe_buffers
    /\ (Returned /\ ~call.collided /\ ~call.repeated)
         => ~call.hit /\ call.reads = 1
    /\ Returned
         => /\ \A x \in DOMAIN call.ret : call.ret[x] # UninitWORD
            /\ call.hit => computed[call.index].frame = call.frame

\* C13 witness: after a construction without auto-scale the first request
\* that reached a slot (frame -1, the smallest GetFrame asks for) has
\* recomputed.
C13_Witness ==
    /\ Returned /\ args.graph_scale # 0
    /\ ~call.collided /\ ~call.repeated
    /\ call.reads = 1 /\ ~call.hit
    /\ call.frame = -frames_either_side /\ call.frame < 0

\* C14: GetFrame(n) requests consecutive frames from n - frames_either_side,
\* at most 2*frames_either_side + 1 of them, in pairwise distinct slots; a
\* GetFrame(n+1) that follows a GetFrame(n) reads from upstream at most once.
C14_OneReadPerNewFrame ==
    (played.recording /\ played.count > 0)
      => /\ played.first = played.n - frames_either_side
         /\ played.consecutive
         /\ played.last = played.first + played.count - 1
         /\ played.count <= 2 * frames_either_side + 1
         /\ Cardinality(played.slots) = played.count
         /\ played.reads <= played.count
         /\ (played.prev_complete /\ played.n = played.prev_n + 1)
               => played.reads <= 1

\* C14 witness: a GetFrame(n+1) right after GetFrame(n) has drawn three
\* audioframes and read one of them from upstream.
C14_Witness ==
    /\ played.recording /\ played.complete /\ played.prev_complete
    /\ played.n = played.prev_n + 1
    /\ played.count = 3
    /\ played.reads = 1

\* C15: after a construction in auto-scale mode (of a picture at least one
\* pixel wide) every column GetAudioFrame returns to GetFrame is the
\* reduction of its frame's audio with the final graph_scale: it was
\* computed with that scale, or, if computed in the prepass with scale 1,
\* it is what the final scale gives for the same deflections.
C15_AutoScaleColumnsUseFinalScale ==
    (Constructed /\ args.graph_scale = 0 /\ vi.width >= 1
       /\ Returned /\ call.caller = "GetFrame")
      => LET c == computed[call.index]
         IN \/ c.scale = graph_scale
            \/ /\ c.scale = 1
               /\ \A x \in DOMAIN call.ret :
                     call.ret[x]
                       = ToWORD(Height2 + Clamp((c.col[x] - Height2) * graph_scale,
                                                -Height2, Height2))

\* C16: for a picture of height >= 2 and a vertical scale >= 1 given to the
\* constructor, every Y coordinate of a column GetAudioFrame returns is a
\* row of the picture: 0 <= Y <= height - 1.
C16_ColumnInsidePicture ==
    (Returned /\ vi.height >= 2 /\ args.graph_scale >= 1)
      => \A x \in DOMAIN call.ret :
            0 <= call.ret[x] /\ call.ret[x] <= vi.height - 1

\* The first cell of the window of pixel x and the cell after its last, by
\* the layout the constructor has computed.
WindowFirst(x) ==
    SampleRange(x, StartOfLastSampleRange(samples_per_frame, log_samples_per_pixel),
                pixels_per_audioframe, BytesPerAudioSample(vi))
      \div BytesPerChannelSample(vi.sample_type)
WindowEnd(x) == WindowFirst(x) + 2^log_mono_samples_per_pixel

\* C17 as claimed: in a constructed layout (width >= 1, any number of
\* channels) the window of 2^log_mono_samples_per_pixel cells that
\* FillAudioFrame8/16 sums for pixel x starts at byte
\* (x * (samples_per_frame - 2^log_samples_per_pixel)
\* \div (pixels_per_audioframe - 1)) * bytes_per_sample and ends within the
\* samples_per_frame * channels cells one GetAudio call fills, and within
\* the audio buffer.
C17_WindowInsideRead ==
    (pc = "ctor_scale" /\ vi.width >= 1)
      => \A x \in 0..(pixels_per_audioframe - 1) :
            LET first == SampleCell(x, BytesPerChannelSample(vi.sample_type))
                end == first + 2^log_mono_samples_per_pixel
            IN /\ m_sample_ranges[x]
                    = ((x * (samples_per_frame - 2^log_samples_per_pixel))
                         \div (pixels_per_audioframe - 1)) * BytesPerAudioSample(vi)
               /\ first >= 0
               /\ end <= samples_per_frame * vi.nchannels
               /\ end <= Cardinality(DOMAIN m_audio_buffer)

\* C17 amended: for mono and stereo clips (width >= 1) every window lies
\* within the samples_per_frame * channels cells one GetAudio call fills
\* and within the audio buffer, the window of the last pixel ending exactly
\* at the last cell filled; the table the constructor stores holds these
\* window starts.
C17_WindowInsideReadStereo ==
    (pc \in {"ctor_sample_ranges", "ctor_scale"}
       /\ vi.width >= 1 /\ vi.nchannels <= 2)
      => /\ \A x \in 0..(pixels_per_audioframe - 1) :
               /\ WindowFirst(x) >= 0
               /\ WindowEnd(x) <= samples_per_frame * vi.nchannels
               /\ WindowEnd(x) <= Cardinality(DOMAIN m_audio_buffer)
               /\ pc = "ctor_scale"
                    => SampleCell(x, BytesPerChannelSample(vi.sample_type))
                         = WindowFirst(x)
         /\ WindowEnd(pixels_per_audioframe - 1) = samples_per_frame * vi.nchannels

\* C17 witness: a stereo layout with four samples per pixel (eight cells
\* per window) whose last window ends at the last cell read.
C17_Witness ==
    /\ pc = "ctor_scale" /\ vi.width >= 1
    /\ vi.nchannels = 2
    /\ log_samples_per_pixel = 2 /\ log_mono_samples_per_pixel = 3
    /\ SampleCell(pixels_per_audioframe - 1, BytesPerChannelSample(vi.sample_type))
         + 2^log_mono_samples_per_pixel = samples_per_frame * vi.nchannels

\* The clip and the arguments pass the checks at the constructor's entry.
WellFormed ==
    /\ vi.width >= 1 /\ vi.has_audio /\ vi.pixel_type # "YV12"
    /\ args.frames_either_side >= 0
    /\ vi.samples_per_frame >= 1 /\ vi.nchannels >= 1

\* C18: for a well-formed clip the constructor does not end in "invalid
\* audio buffer size": at the sizing check the buffer size is greater than
\* (pixels_per_audioframe * (samples_per_frame - 2^log_samples_per_pixel)
\* / (pixels_per_audioframe - 1)) * bytes_per_sample.
C18_SizingCheckPasses ==
    WellFormed
      => /\ err # "AudioGraph: invalid audio buffer size"
         /\ (pc = "ctor_sample_ranges" /\ status = "constructing")
               => m_audio_buffer_size
                    > CDiv(pixels_per_audioframe
                             * StartOfLastSampleRange(samples_per_frame,
                                                      log_samples_per_pixel),
                           pixels_per_audioframe - 1) * BytesPerAudioSample(vi)

====
